---- MODULE Spec2Model ----
(***************************************************************************)
(* PetHealthTracker backend (src/app.py): the authentication flow.         *)
(*                                                                         *)
(* State: the two user tables kept by the storage service (Clientes,       *)
(* Funcionario), the wall clock read by datetime.utcnow(), the bearer      *)
(* token the caller holds, and the last request with its HTTP response.    *)
(* One action per endpoint of the flow, plus the environment: the clock,   *)
(* and writes made to the tables from outside the application.             *)
(*                                                                         *)
(* Time is counted in minutes.  Strings the libraries produce are records: *)
(* a stored password field is [fmt, salt, body], a token is                *)
(* [sub, exp, sig, segs].                                                  *)
(***************************************************************************)
EXTENDS Integers, Sequences, FiniteSets, TLC

VARIABLES Clientes, Funcionario, now, issued, last

vars == <<Clientes, Funcionario, now, issued, last>>

----------------------------------------------------------------------------
(* Bounds of the model and the input sets.                                 *)

MaxRows == 2
MaxTime == 31

Emails == {"a@b.com", "c@d.com"}
Secrets == {"x", "wrong"}
Salts == {"salt1"}
Roles == {"cliente", "funcionario", "Cliente", ""}

(* Program constants. *)
LoginTtl == 30
DefaultTtl == 30
SECRET_KEY == "SECRET_KEY"

(* The minutes that pass between two requests: just less, or just more,  *)
(* than the lifetime of a login token.                                     *)
Waits == {LoginTtl - 1, LoginTtl + 1}

(* An optional timedelta: <<>> is None, <<n>> is timedelta(minutes=n). *)
Deltas == {<<>>, <<0>>, <<1>>, <<LoginTtl>>}

----------------------------------------------------------------------------
(* bcrypt.                                                                 *)

(* A string that is not a bcrypt hash, such as a password kept as typed. *)
PlainText(s) == [fmt |-> "text", salt |-> "", body |-> s]

(* bcrypt.hashpw: the printable hash embeds the salt; body stands for the  *)
(* digest of (salt, password), which differs for different passwords.      *)
hashpw(plain, salt) == [fmt |-> "bcrypt", salt |-> salt, body |-> plain]

hash_password(plain_password, salt) == hashpw(plain_password, salt)

(* bcrypt.checkpw: raises ValueError("Invalid salt") when the second       *)
(* argument is not a bcrypt hash; otherwise rehashes with the embedded     *)
(* salt and compares.                                                      *)
checkpw(plain, hashed) ==
    IF hashed.fmt # "bcrypt" THEN "ValueError"
    ELSE IF hashpw(plain, hashed.salt) = hashed THEN "True" ELSE "False"

verify_password(plain_password, hashed_password) ==
    checkpw(plain_password, hashed_password)

----------------------------------------------------------------------------
(* PyJWT.                                                                  *)

NoToken == [sub |-> "", exp |-> 0, sig |-> <<"", 0, "">>, segs |-> 0]

Sign(sub, exp, key) == <<sub, exp, key>>

jwt_encode(sub, exp, key) ==
    [sub |-> sub, exp |-> exp, sig |-> Sign(sub, exp, key), segs |-> 3]

(* jwt.decode: structure, then signature, then the exp claim. *)
jwt_decode(token, key) ==
    IF token.segs # 3 THEN "DecodeError"
    ELSE IF token.sig # Sign(token.sub, token.exp, key) THEN "InvalidSignatureError"
    ELSE IF token.exp <= now THEN "ExpiredSignatureError"
    ELSE "ok"

(* The names the jwt module exports that an except clause can look up. *)
JwtExports ==
    {"encode", "decode", "PyJWTError", "InvalidTokenError", "DecodeError",
     "InvalidSignatureError", "ExpiredSignatureError"}

(* One character of the token changed, or a string that is no token. *)
Tampered(t) ==
    {[t EXCEPT !.sub = e] : e \in Emails \ {t.sub}}
    \cup {[t EXCEPT !.exp = t.exp + 1]}
    \cup {[t EXCEPT !.sig = Sign(t.sub, t.exp, "otra")]}
    \cup {[t EXCEPT !.segs = 2]}

----------------------------------------------------------------------------
(* HTTP responses.  caso names the path the handler took, tabla the table  *)
(* it consulted; role repeats the request; token is the access_token of    *)
(* the body and email the email of the body.                               *)

Response(op, caso, status, detail) ==
    [op |-> op, caso |-> caso, status |-> status, detail |-> detail,
     token |-> NoToken, email |-> "", role |-> "", tabla |-> ""]

NoRequest == Response("none", "", 0, "")

(* An exception no handler catches: FastAPI answers 500. *)
Unhandled(op, caso) == Response(op, caso, 500, "Internal Server Error")

----------------------------------------------------------------------------
(* Token service.                                                          *)

create_access_token(sub, expires_delta) ==
    LET expire == IF expires_delta # <<>> /\ expires_delta[1] # 0
                  THEN now + expires_delta[1]
                  ELSE now + DefaultTtl
    IN  jwt_encode(sub, expire, SECRET_KEY)

(* A verify_token that also looks the subject up in the tables. *)
verify_token_checks_user(token) ==
    LET r == jwt_decode(token, SECRET_KEY)
        known == \E i \in 1..Len(Clientes) : Clientes[i].correo = token.sub
        staff == \E i \in 1..Len(Funcionario) : Funcionario[i].correo = token.sub
    IN  IF token = NoToken
        THEN Response("protected", "no_token", 401, "Not authenticated")
        ELSE IF r = "ok" /\ (known \/ staff)
        THEN [Response("protected", "ok", 200, "") EXCEPT !.email = token.sub]
        ELSE IF r = "ExpiredSignatureError"
        THEN Response("protected", "expired", 401, "Token expirado")
        ELSE Unhandled("protected", "bad_signature")

(* Depends(oauth2_scheme): a request without a bearer token is answered    *)
(* 401 before the body runs.  The except clauses are tried in order; the   *)
(* second one looks JWTError up in the jwt module as it is reached.        *)
verify_token(token) ==
    LET r == jwt_decode(token, SECRET_KEY)
        caso == IF r = "ok" THEN "ok"
                ELSE IF r = "ExpiredSignatureError" THEN "expired"
                ELSE IF r = "DecodeError" THEN "malformed" ELSE "bad_signature"
    IN  IF token = NoToken
        THEN Response("protected", "no_token", 401, "Not authenticated")
        ELSE IF r = "ok"
        THEN [Response("protected", caso, 200, "") EXCEPT !.email = token.sub]
        ELSE IF r = "ExpiredSignatureError"
        THEN Response("protected", caso, 401, "Token expirado")
        ELSE IF "JWTError" \in JwtExports
        THEN Response("protected", caso, 401, "Token inválido")
        ELSE Unhandled("protected", caso)

protected_route(token) ==
    LET r == verify_token(token)
    IN  IF r.status = 200
        THEN [Response("protected", r.caso, 200, "Acceso permitido")
                EXCEPT !.email = r.email]
        ELSE r

----------------------------------------------------------------------------
(* Storage.                                                                *)

Rows(tabla) == IF tabla = "Clientes" THEN Clientes ELSE Funcionario

(* supabase.table(tabla).select("*").eq("correo", correo).execute().data *)
Select(tabla, correo) == SelectSeq(Rows(tabla), LAMBDA r : r.correo = correo)

(* A registration that forwards the record with the password as typed. *)
cliente_data_plain(correo, contrasena, salt) ==
    [correo |-> correo, contrasena |-> PlainText(contrasena),
     origen |-> "registro", enviado |-> contrasena]

(* The record a registration inserts; origen and enviado are history. *)
cliente_data(correo, contrasena, salt) ==
    [correo |-> correo, contrasena |-> hash_password(contrasena, salt),
     origen |-> "registro", enviado |-> contrasena]

funcionario_data(correo, contrasena, salt) ==
    [correo |-> correo, contrasena |-> hash_password(contrasena, salt),
     origen |-> "registro", enviado |-> contrasena]

----------------------------------------------------------------------------
(* Endpoints, as functions of the request and of whether the storage call  *)
(* succeeds.                                                               *)

create_cliente(dbOk) ==
    IF dbOk THEN Response("create_cliente", "ok", 200, "Cliente creado")
    ELSE Response("create_cliente", "storage_error", 500, "APIError")

create_funcionario(dbOk) ==
    IF dbOk THEN Response("create_funcionario", "ok", 200, "Funcionario creado")
    ELSE Response("create_funcionario", "storage_error", 500, "APIError")

(* The try body of verify_client: what it returns or raises. *)
verify_client_body(correo, contrasena, dbOk) ==
    IF ~dbOk THEN [raised |-> TRUE, caso |-> "storage_error", status |-> 0, str |-> "APIError"]
    ELSE LET data == Select("Clientes", correo)
         IN  IF Len(data) = 0
             THEN [raised |-> TRUE, caso |-> "not_found", status |-> 404,
                   str |-> "404: Cliente no encontrado"]
             ELSE LET chk == verify_password(contrasena, data[1].contrasena)
                  IN  IF chk = "ValueError"
                      THEN [raised |-> TRUE, caso |-> "malformed_hash", status |-> 0,
                            str |-> "Invalid salt"]
                      ELSE IF chk = "True"
                      THEN [raised |-> FALSE, caso |-> "ok", status |-> 200,
                            str |-> "Contraseña correcta"]
                      ELSE [raised |-> FALSE, caso |-> "mismatch", status |-> 200,
                            str |-> "Contraseña incorrecta"]

(* except Exception as e: every exception of the body, HTTPException       *)
(* included, becomes a 500 whose detail is str(e).                         *)
verify_client(correo, contrasena, dbOk) ==
    LET b == verify_client_body(correo, contrasena, dbOk)
    IN  [Response("verify_client", b.caso, IF b.raised THEN 500 ELSE b.status, b.str)
           EXCEPT !.tabla = "Clientes"]

(* The role test inverted. *)
TableForInverted(role) == IF role = "cliente" THEN "Funcionario" ELSE "Clientes"

(* Staff only for exactly "funcionario", every other role a client. *)
TableForExactStaff(role) == IF role = "funcionario" THEN "Funcionario" ELSE "Clientes"

TableFor(role) == IF role = "cliente" THEN "Clientes" ELSE "Funcionario"

(* A login that tells a wrong password apart from an unknown email. *)
login_user_leaky(correo, contrasena, role, dbOk) ==
    LET table == TableFor(role)
        tag(r) == [r EXCEPT !.role = role, !.tabla = table]
    IN  IF ~dbOk THEN tag(Unhandled("login", "storage_error"))
        ELSE LET data == Select(table, correo)
             IN  IF data = <<>>
                 THEN tag(Response("login", "not_found", 400,
                                   "Correo o contraseña incorrectos"))
                 ELSE LET user == data[1]
                          chk == checkpw(contrasena, user.contrasena)
                      IN  IF chk = "ValueError"
                          THEN tag(Unhandled("login", "malformed_hash"))
                          ELSE IF chk = "False"
                          THEN tag(Response("login", "mismatch", 400,
                                            "Contraseña incorrecta"))
                          ELSE tag([Response("login", "ok", 200, "bearer")
                                      EXCEPT !.token =
                                        create_access_token(user.correo, <<LoginTtl>>)])

login_user(correo, contrasena, role, dbOk) ==
    LET table == TableFor(role)
        tag(r) == [r EXCEPT !.role = role, !.tabla = table]
    IN  IF ~dbOk THEN tag(Unhandled("login", "storage_error"))
        ELSE LET data == Select(table, correo)
             IN  IF data = <<>>
                 THEN tag(Response("login", "not_found", 400,
                                   "Correo o contraseña incorrectos"))
                 ELSE LET user == data[1]
                          chk == checkpw(contrasena, user.contrasena)
                      IN  IF chk = "ValueError"
                          THEN tag(Unhandled("login", "malformed_hash"))
                          ELSE IF chk = "False"
                          THEN tag(Response("login", "mismatch", 400,
                                            "Correo o contraseña incorrectos"))
                          ELSE tag([Response("login", "ok", 200, "bearer")
                                      EXCEPT !.token =
                                        create_access_token(user.correo, <<LoginTtl>>)])

----------------------------------------------------------------------------
(* The state machine.                                                      *)

NoIssued == [token |-> NoToken, at |-> 0, delta |-> <<>>]

Init ==
    /\ Clientes = <<>>
    /\ Funcionario = <<>>
    /\ now = 0
    /\ issued = NoIssued
    /\ last = NoRequest

TotalRows == Len(Clientes) + Len(Funcionario)

CreateCliente ==
    \E correo \in Emails, contrasena \in Secrets, salt \in Salts, dbOk \in BOOLEAN :
        /\ dbOk => TotalRows < MaxRows
        /\ last' = create_cliente(dbOk)
        /\ Clientes' = IF dbOk
                       THEN Append(Clientes, cliente_data(correo, contrasena, salt))
                       ELSE Clientes
        /\ UNCHANGED <<Funcionario, now, issued>>

CreateFuncionario ==
    \E correo \in Emails, contrasena \in Secrets, salt \in Salts, dbOk \in BOOLEAN :
        /\ dbOk => TotalRows < MaxRows
        /\ last' = create_funcionario(dbOk)
        /\ Funcionario' = IF dbOk
                          THEN Append(Funcionario, funcionario_data(correo, contrasena, salt))
                          ELSE Funcionario
        /\ UNCHANGED <<Clientes, now, issued>>

VerifyClient ==
    \E correo \in Emails, contrasena \in Secrets, dbOk \in BOOLEAN :
        /\ last' = verify_client(correo, contrasena, dbOk)
        /\ UNCHANGED <<Clientes, Funcionario, now, issued>>

LoginUser ==
    \E correo \in Emails, contrasena \in Secrets, role \in Roles, dbOk \in BOOLEAN :
        LET r == login_user(correo, contrasena, role, dbOk)
        IN  /\ last' = r
            /\ issued' = IF r.status = 200
                         THEN [token |-> r.token, at |-> now, delta |-> <<LoginTtl>>]
                         ELSE issued
            /\ UNCHANGED <<Clientes, Funcionario, now>>

(* GET /protected/ without a token, with the token the caller holds, or    *)
(* with a tampered copy of it.                                             *)
Presentable ==
    {NoToken} \cup (IF issued.token = NoToken THEN {}
                    ELSE {issued.token} \cup Tampered(issued.token))

ProtectedRoute ==
    \E t \in Presentable :
        /\ last' = protected_route(t)
        /\ UNCHANGED <<Clientes, Funcionario, now, issued>>

Tick ==
    \E d \in Waits :
        /\ now + d <= MaxTime
        /\ now' = now + d
        /\ UNCHANGED <<Clientes, Funcionario, issued, last>>

(* Writes made to the tables from outside the application. *)
ForeignPasswords == {PlainText("x")}

ExternalRow(correo, pw) ==
    [correo |-> correo, contrasena |-> pw, origen |-> "externo", enviado |-> ""]

RemoveAt(s, i) == [j \in 1..(Len(s) - 1) |-> IF j < i THEN s[j] ELSE s[j + 1]]

ExternalInsert ==
    \E tabla \in {"Clientes", "Funcionario"}, correo \in Emails, pw \in ForeignPasswords :
        /\ TotalRows < MaxRows
        /\ Clientes' = IF tabla = "Clientes"
                       THEN Append(Clientes, ExternalRow(correo, pw)) ELSE Clientes
        /\ Funcionario' = IF tabla = "Funcionario"
                          THEN Append(Funcionario, ExternalRow(correo, pw)) ELSE Funcionario
        /\ last' = Response("externo", "insert", 0, "")
        /\ UNCHANGED <<now, issued>>

ExternalDelete ==
    \E tabla \in {"Clientes", "Funcionario"} :
        \E i \in 1..Len(Rows(tabla)) :
            /\ Clientes' = IF tabla = "Clientes" THEN RemoveAt(Clientes, i) ELSE Clientes
            /\ Funcionario' = IF tabla = "Funcionario"
                              THEN RemoveAt(Funcionario, i) ELSE Funcionario
            /\ last' = Response("externo", "delete", 0, "")
            /\ UNCHANGED <<now, issued>>

Next ==
    \/ CreateCliente
    \/ CreateFuncionario
    \/ VerifyClient
    \/ LoginUser
    \/ ProtectedRoute
    \/ Tick
    \/ ExternalInsert
    \/ ExternalDelete

Spec == Init /\ [][Next]_vars

(* The token service on its own: create_access_token applied to every      *)
(* subject and every expires_delta, and the token verified as time passes. *)
CallCreateAccessToken ==
    \E sub \in Emails, delta \in Deltas :
        /\ issued' = [token |-> create_access_token(sub, delta), at |-> now,
                      delta |-> delta]
        /\ last' = Response("create_access_token", "ok", 0, "")
        /\ UNCHANGED <<Clientes, Funcionario, now>>

NextToken ==
    \/ CallCreateAccessToken
    \/ ProtectedRoute
    \/ Tick

SpecToken == Init /\ [][NextToken]_vars

----------------------------------------------------------------------------
(* Properties.                                                             *)

Tables == {"Clientes", "Funcionario"}

RoleOf(tabla) == IF tabla = "Clientes" THEN "cliente" ELSE "funcionario"

(* What the caller sees of a response. *)
Visible(r) == <<r.status, r.detail, r.token, r.email>>

InvalidCredentials == <<400, "Correo o contraseña incorrectos", NoToken, "">>

HasRow(tabla, correo) == Select(tabla, correo) # <<>>

(* C1: a login whose lookup finds no record and a login whose record is    *)
(* found but whose secret checkpw rejects get the same response, 400 with  *)
(* the same detail, for every email, secret and role.                      *)
C1_LoginFailuresIndistinguishable ==
    LET failures ==
            {Visible(login_user(c, s, r, TRUE)) : <<c, s, r>> \in
                {x \in Emails \X Secrets \X Roles :
                    login_user(x[1], x[2], x[3], TRUE).caso \in {"not_found", "mismatch"}}}
    IN  /\ failures \subseteq {InvalidCredentials}
        /\ (last.op = "login" /\ last.caso \in {"not_found", "mismatch"})
              => Visible(last) = InvalidCredentials

(* A wrong password was just answered while some other login would find no *)
(* record.                                                                 *)
C1_Witness ==
    /\ last.op = "login"
    /\ last.caso = "mismatch"
    /\ \E c \in Emails, s \in Secrets, r \in Roles :
          login_user(c, s, r, TRUE).caso = "not_found"

(* C2: once a registration with email E and secret S has succeeded, login  *)
(* with E, S and the matching role returns a token and login with E and    *)
(* any other secret fails with 400, other registrations of E included.     *)
(* Stated over tables that hold registered records only.                   *)
C2_RegisteredUserCanLogin ==
    (\A t \in Tables : \A i \in 1..Len(Rows(t)) : Rows(t)[i].origen = "registro")
    => \A t \in Tables : \A i \in 1..Len(Rows(t)) :
          LET row == Rows(t)[i]
          IN  /\ login_user(row.correo, row.enviado, RoleOf(t), TRUE).status = 200
              /\ login_user(row.correo, row.enviado, RoleOf(t), TRUE).token # NoToken
              /\ \A s \in Secrets \ {row.enviado} :
                    Visible(login_user(row.correo, s, RoleOf(t), TRUE)) = InvalidCredentials

(* C3: a login with role "cliente" for an email without a record in        *)
(* Clientes is answered 400 as an unknown email whatever the secret and    *)
(* whatever Funcionario holds, and never yields a token.                   *)
C3_LoginConsultsOnlyRoleTable ==
    \A c \in Emails, s \in Secrets :
        ~HasRow("Clientes", c)
        => /\ login_user(c, s, "cliente", TRUE).caso = "not_found"
           /\ Visible(login_user(c, s, "cliente", TRUE)) = InvalidCredentials
           /\ login_user(c, s, "cliente", FALSE).token = NoToken

(* A client login was just refused while every email has a staff record    *)
(* and Clientes is empty.                                                  *)
C3_Witness ==
    /\ last.op = "login"
    /\ last.role = "cliente"
    /\ last.status = 400
    /\ Clientes = <<>>
    /\ \A c \in Emails : HasRow("Funcionario", c)

(* C4: a token made by create_access_token(sub, ttl) verifies to sub       *)
(* before ttl has passed since it was issued, and is refused 401 "Token    *)
(* expirado" after ttl has passed; a missing ttl means the default.        *)
C4_TokenLivesForTtl ==
    issued # NoIssued
    => LET ttl == IF issued.delta = <<>> THEN DefaultTtl ELSE issued.delta[1]
           r == protected_route(issued.token)
       IN  /\ now < issued.at + ttl => (r.status = 200 /\ r.email = issued.token.sub)
           /\ now > issued.at + ttl => (r.status = 401 /\ r.detail = "Token expirado")

(* C5: a token whose signature check fails or whose structure is malformed *)
(* is answered 401.                                                        *)
C5_InvalidTokenIs401 ==
    (last.op = "protected" /\ last.caso \in {"bad_signature", "malformed"})
    => (last.status = 401 /\ last.email = "")

(* C6: verify-client for an email without a record in Clientes is answered *)
(* 404, and 500 only when the storage call fails.                          *)
C6_VerifyClientNotFoundIs404 ==
    last.op = "verify_client"
    => /\ last.caso = "not_found" => last.status = 404
       /\ last.status = 500 => last.caso = "storage_error"

(* C7: the password check answers false for a malformed stored hash, so a  *)
(* login against such a record ends 400 and a verify-client ends           *)
(* "Contraseña incorrecta".                                                *)
C7_MalformedHashIsMismatch ==
    /\ (last.op = "login" /\ last.caso = "malformed_hash")
          => Visible(last) = InvalidCredentials
    /\ (last.op = "verify_client" /\ last.caso = "malformed_hash")
          => (last.status = 200 /\ last.detail = "Contraseña incorrecta")

C8_RecordsHoldHash ==
    /\ \A t \in Tables : \A i \in 1..Len(Rows(t)) :
          LET row == Rows(t)[i]
          IN  row.origen = "registro"
              => /\ row.contrasena.fmt = "bcrypt"
                 /\ row.contrasena # PlainText(row.enviado)
                 /\ verify_password(row.enviado, row.contrasena) = "True"
    /\ (last.op \in {"create_cliente", "create_funcionario"} /\ last.caso = "storage_error")
          => last.status = 500

C8_FailedInsertAddsNothing ==
    (last'.op \in {"create_cliente", "create_funcionario"} /\ last'.caso = "storage_error")
    => (Clientes' = Clientes /\ Funcionario' = Funcionario)

(* C8: every record a registration inserted holds a bcrypt hash of the     *)
(* submitted secret that verifies against it, never the secret as typed;   *)
(* a registration whose insert fails is answered 500 and adds no record.   *)
C8_RegistrationStoresHash ==
    []C8_RecordsHoldHash /\ [][C8_FailedInsertAddsNothing]_vars

(* A client was just registered and its record is the last of Clientes. *)
C8_Witness ==
    /\ last.op = "create_cliente"
    /\ last.status = 200
    /\ Clientes # <<>>
    /\ Clientes[Len(Clientes)].origen = "registro"

(* C9: the token a login issued expires LoginTtl after it was issued, and  *)
(* at every time before that GET /protected/ accepts it and returns its    *)
(* subject, whatever has happened to the tables since.                     *)
C9_TokenAcceptedUntilExpiry ==
    issued # NoIssued
    => /\ issued.token.exp = issued.at + LoginTtl
       /\ now < issued.token.exp
             => /\ protected_route(issued.token).status = 200
                /\ protected_route(issued.token).email = issued.token.sub

(* Time has passed since the login, the subject's records are gone from    *)
(* both tables, and the token was just accepted.                           *)
C9_Witness ==
    /\ issued # NoIssued
    /\ issued.at < now
    /\ now < issued.token.exp
    /\ \A t \in Tables : ~HasRow(t, issued.token.sub)
    /\ last.op = "protected"
    /\ last.status = 200
    /\ last.email = issued.token.sub

(* C10: a login with any role other than "cliente" is answered as the same *)
(* login with role "funcionario": it consults Funcionario only, returns a  *)
(* token for the email when the staff record found for it verifies the     *)
(* secret, and is refused as unknown when Funcionario has no record of the *)
(* email, whatever Clientes holds.                                         *)
C10_OtherRolesAreStaff ==
    \A role \in Roles \ {"cliente"}, c \in Emails, s \in Secrets :
        LET r == login_user(c, s, role, TRUE)
            data == Select("Funcionario", c)
        IN  /\ r.tabla = "Funcionario"
            /\ r = [login_user(c, s, "funcionario", TRUE) EXCEPT !.role = role]
            /\ login_user(c, s, role, FALSE).tabla = "Funcionario"
            /\ data = <<>> => Visible(r) = InvalidCredentials
            /\ (data # <<>> /\ checkpw(s, data[1].contrasena) = "True")
                  => (r.status = 200 /\ r.token # NoToken /\ r.token.sub = c)

(* A login with a role that is neither "cliente" nor "funcionario" was     *)
(* just given a token for an email that has no record in Clientes.         *)
C10_Witness ==
    /\ last.op = "login"
    /\ last.role \notin {"cliente", "funcionario"}
    /\ last.status = 200
    /\ ~HasRow("Clientes", last.token.sub)

====
